---- MODULE Spec2Model ----
(***************************************************************************)
(* Memory-gated execution: MemoryConstrainedExecutionHandler together with *)
(* its ports (monitor, estimator, policy, decision recorder) as wired in   *)
(* the test suite, and the safety-margin policy as a pure function.        *)
(*                                                                         *)
(* Python values are modelled as follows.                                  *)
(*   - A byte count is an integer.                                         *)
(*   - A float safety margin is the exact fraction <<num, den>>, den > 0;  *)
(*     binary rounding of the float product is not modelled.               *)
(*   - A value returned by a callable is a record [t, v]; None is the      *)
(*     record of type "NoneType".                                          *)
(*   - An exception is a record [type, msg]; msg models str(e).            *)
(*   - A batch entry is an argument tuple (the isinstance(args, tuple)     *)
(*     branch of the batch loop); func receives it as its arguments.        *)
(***************************************************************************)
EXTENDS Integers, Sequences, FiniteSets, TLC

VARIABLES
    memory_monitor,      \* MockMemoryMonitor fields, plus queries: the number of get_available_memory calls
    memory_estimator,    \* MockMemoryEstimator call record (_call_count, _call_history)
    memory_policy,       \* policy instance: kind, safety_margin, and the MockMemoryPolicy fields
    execution_decision,  \* MockExecutionDecision: the three logs
    func_calls,          \* argument tuples the callable has been invoked with, in order
    worker_pool,         \* the handler's WorkerPool: its state and the map requests it was given
    pc,                  \* position of the (single) thread of control
    mode,                \* who called execute_with_memory_check: "single" (the caller) or "batch" (the batch loop)
    call,                \* frame of execute_with_memory_check
    batch,               \* frame of execute_batch_with_memory_check
    flight,              \* value being returned / exception being raised out of the current frame
    outcome,             \* what the top-level caller got from its last call
    base,                \* lengths of the call records when the last top-level call started
    env_changes,         \* number of reconfigurations of the mocks so far
    policy_probe         \* last call on the policy (test_safety_margin_policy_adapter) or on a file-size estimator

ports == <<memory_monitor, memory_estimator, memory_policy, execution_decision, func_calls>>
frames == <<pc, mode, call, batch, flight, outcome, base>>
vars == <<memory_monitor, memory_estimator, memory_policy, execution_decision, func_calls,
          worker_pool, pc, mode, call, batch, flight, outcome, base, env_changes, policy_probe>>

----------------------------------------------------------------------------
(* Bounds of the model *)

MaxBatch == 2          \* longest args_list
MaxPrior == 1          \* earlier calls whose records the mocks already hold at the start
MaxEnvChanges == 1     \* reconfigurations of the mocks per behaviour
MaxBytes == 12         \* largest small byte count given to the policy directly
MaxFileSize == 3
MaxMockCalls == 2       \* largest size of a file handed to a file-size estimator

(* Program constants *)

MiB == 1048576         \* 1024**2

(* Input sets *)

ArgTuples == {<<1>>, <<2>>}
Estimates == {1, 3}
MemoryLevels == {0, 2, 4}
TotalMemory == 4
Funcs == {"test_function", "log_only", "memory_intensive_operation", "read_file_to_string"}

DefaultMargin == <<1, 10>>     \* safety_margin: float = 0.1
Margins == {<<0, 1>>, <<1, 10>>, <<1, 5>>, <<1, 2>>, <<9, 10>>, <<1, 1>>, <<3, 2>>, <<-1, 2>>}
ProbeBytes == (0 .. MaxBytes) \cup {8 * MiB, 8 * MiB + 1, 10 * MiB}

----------------------------------------------------------------------------
(* Python values *)

None == [t |-> "NoneType", v |-> 0]
PyInt(n) == [t |-> "int", v |-> n]

NoReason == [text |-> "", a |-> 0, b |-> 0]

\* int(n / d): Python's int() of a float truncates toward zero
int(n, d) == IF n >= 0 THEN n \div d ELSE -((-n) \div d)

----------------------------------------------------------------------------
(* SafetyMarginMemoryPolicyAdapter / MockMemoryPolicy *)

SafetyMarginMemoryPolicyAdapter(margin) ==
    [kind |-> "safety_margin", safety_margin |-> margin, _should_execute |-> TRUE,
     _decision_count |-> 0, _decision_history |-> <<>>]

MockMemoryPolicy(answer, margin) ==
    [kind |-> "mock", safety_margin |-> margin, _should_execute |-> answer,
     _decision_count |-> 0, _decision_history |-> <<>>]

\* int(total_available * (1 - self.safety_margin))
get_safe_available_memory(policy, total_available) ==
    int(total_available * (policy.safety_margin[2] - policy.safety_margin[1]),
        policy.safety_margin[2])

\* mutant: the threshold is exclusive
should_execute_exclusive(policy, estimated_usage, available_memory) ==
    IF policy.kind = "mock"
    THEN policy._should_execute
    ELSE estimated_usage < int(available_memory * (policy.safety_margin[2] - policy.safety_margin[1]),
                               policy.safety_margin[2])

\* mutant: only an exact fit is admitted
should_execute_exact(policy, estimated_usage, available_memory) ==
    IF policy.kind = "mock"
    THEN policy._should_execute
    ELSE estimated_usage = int(available_memory * (policy.safety_margin[2] - policy.safety_margin[1]),
                               policy.safety_margin[2])

\* the value returned by policy.should_execute(estimated_usage, available_memory)
should_execute(policy, estimated_usage, available_memory) ==
    IF policy.kind = "mock"
    THEN policy._should_execute
    ELSE estimated_usage <= get_safe_available_memory(policy, available_memory)

\* the policy object after that call: the mock counts and records it
after_should_execute(policy, estimated_usage, available_memory) ==
    IF policy.kind = "mock"
    THEN [policy EXCEPT !._decision_count = @ + 1,
                        !._decision_history = Append(@, <<estimated_usage, available_memory>>)]
    ELSE policy

----------------------------------------------------------------------------
(* The callables handed to the handler *)

\* what calling func with the argument tuple does: return a value or raise.
\*   test_function             x * 2 (the tests' callable)
\*   log_only                  a callable without a return value: returns None
\*   memory_intensive_operation  returns its chunks, or runs out of memory on the
\*                             larger argument and raises MemoryError
\*   read_file_to_string       returns the content, or raises FileNotFoundError
\*                             on the second path
Callable(func, args) ==
    CASE func = "test_function" -> [kind |-> "return", value |-> PyInt(args[1] * 2)]
      [] func = "log_only" -> [kind |-> "return", value |-> None]
      [] func = "memory_intensive_operation" ->
            IF args[1] >= 2
            THEN [kind |-> "raise", exc |-> [type |-> "MemoryError", msg |-> NoReason]]
            ELSE [kind |-> "return", value |-> [t |-> "list", v |-> args[1]]]
      [] func = "read_file_to_string" ->
            IF args[1] >= 2
            THEN [kind |-> "raise", exc |-> [type |-> "FileNotFoundError", msg |-> NoReason]]
            ELSE [kind |-> "return", value |-> [t |-> "str", v |-> args[1]]]

----------------------------------------------------------------------------
(* Mocks *)

\* (used / total) * 100, a float: kept as the exact fraction
percent_of(used_memory, total_memory) == <<used_memory * 100, total_memory>>

\* MockMemoryMonitor.__init__; queries counts the get_available_memory calls
MockMemoryMonitor(total_memory, available_memory) ==
    [_total_memory |-> total_memory, _available_memory |-> available_memory,
     _used_memory |-> total_memory - available_memory,
     _percent |-> percent_of(total_memory - available_memory, total_memory),
     queries |-> 0]

\* mutant: the used figure is not refreshed
after_set_available_memory_stale(monitor, available_memory) ==
    [monitor EXCEPT !._available_memory = available_memory]

\* MockMemoryMonitor.set_available_memory: the monitor after the call
after_set_available_memory(monitor, available_memory) ==
    [monitor EXCEPT !._available_memory = available_memory,
                    !._used_memory = monitor._total_memory - available_memory,
                    !._percent = percent_of(monitor._total_memory - available_memory,
                                            monitor._total_memory)]

\* MockMemoryMonitor.get_memory_info: the snapshot, a MemoryInfo; the monitor
\* fills safe_available with the available memory itself
MemoryInfo(monitor) ==
    [total |-> monitor._total_memory, available |-> monitor._available_memory,
     used |-> monitor._used_memory, percent |-> monitor._percent,
     safe_available |-> monitor._available_memory]

MockMemoryEstimator == [_call_count |-> 0, _call_history |-> <<>>]

\* self.worker_pool = WorkerPool(n_jobs=n_workers); map_calls lists the requests
\* (func, iterable of argument tuples) given to worker_pool.map
WorkerPool == [state |-> "open", map_calls |-> <<>>]

MockExecutionDecision ==
    [_memory_check_logs |-> <<>>, _execution_decision_logs |-> <<>>, _memory_error_logs |-> <<>>]

log_memory_check(rec, estimated_usage, available_memory, safe_available) ==
    [rec EXCEPT !._memory_check_logs =
        Append(@, <<estimated_usage, available_memory, safe_available>>)]

log_execution_decision(rec, func_name, admitted, reason) ==
    [rec EXCEPT !._execution_decision_logs = Append(@, <<func_name, admitted, reason>>)]

log_memory_error(rec, estimated_usage, available_memory) ==
    [rec EXCEPT !._memory_error_logs = Append(@, <<estimated_usage, available_memory>>)]

\* mutant: the memory-error log is left as it is
clear_logs_partial(rec) ==
    [rec EXCEPT !._memory_check_logs = <<>>, !._execution_decision_logs = <<>>]

\* MockExecutionDecision.clear_logs: the recorder after the call
clear_logs(rec) ==
    [rec EXCEPT !._memory_check_logs = <<>>, !._execution_decision_logs = <<>>,
                !._memory_error_logs = <<>>]

\* func.__name__ and f"batch_{func.__name__}"
name_of(func) == <<"", func>>
batch_name_of(func) == <<"batch_", func>>

\* f"Insufficient memory: estimated {estimated_usage // (1024**2)}MB exceeds available memory"
error_msg(estimated_usage) ==
    [text |-> "Insufficient memory: estimated {a}MB exceeds available memory",
     a |-> estimated_usage \div MiB, b |-> 0]

\* f"Skipped {skipped_count} out of {len(args_list)} executions due to memory constraints"
skipped_msg(skipped_count, total) ==
    [text |-> "Skipped {a} out of {b} executions due to memory constraints",
     a |-> skipped_count, b |-> total]

----------------------------------------------------------------------------
(* Frames *)

NoCall == [func |-> "", has_estimator |-> FALSE, args |-> <<>>, estimated_usage |-> -1,
           decision |-> "unchecked"]
NoBatch == [func |-> "", has_estimator |-> FALSE, args_list |-> <<>>, idx |-> 0,
            results |-> <<>>, skipped_count |-> 0, verdicts |-> <<>>]
NoFlight == [kind |-> "none"]
NoProbe == [op |-> "none", estimated_usage |-> 0, available_memory |-> 0, ret |-> 0, answer |-> FALSE]

\* lengths of every call record, taken when a top-level call starts
Snapshot ==
    [estimates |-> memory_estimator._call_count,
     decisions |-> memory_policy._decision_count,
     queries |-> memory_monitor.queries,
     checks |-> Len(execution_decision._memory_check_logs),
     decision_logs |-> Len(execution_decision._execution_decision_logs),
     errors |-> Len(execution_decision._memory_error_logs),
     func_calls |-> Len(func_calls),
     map_calls |-> Len(worker_pool.map_calls)]

\* the handler's policies in the test suite
HandlerPolicies ==
    {MockMemoryPolicy(TRUE, DefaultMargin), MockMemoryPolicy(FALSE, DefaultMargin),
     SafetyMarginMemoryPolicyAdapter(DefaultMargin)}

\* k copies of x
Repeat(k, x) == [i \in 1 .. k |-> x]

\* The mocks at the start of a behaviour. A behaviour follows one top-level call
\* of the handler; the mocks may already hold the records of k earlier rounds,
\* each round a refused call test_function(1) (estimate 3, available 0, the
\* policy answering False) followed by an ungated call test_function(1).
Init ==
    /\ \E k \in 0 .. MaxPrior, a \in MemoryLevels, p \in HandlerPolicies :
          /\ memory_monitor = [MockMemoryMonitor(TotalMemory, a) EXCEPT !.queries = 2 * k]
          /\ memory_estimator = [_call_count |-> k, _call_history |-> Repeat(k, <<1>>)]
          /\ memory_policy =
                IF p.kind = "mock"
                THEN [p EXCEPT !._decision_count = k, !._decision_history = Repeat(k, <<3, 0>>)]
                ELSE p
          /\ execution_decision =
                [_memory_check_logs |-> Repeat(k, <<3, 0, get_safe_available_memory(p, 0)>>),
                 _execution_decision_logs |-> Repeat(k, <<name_of("test_function"), TRUE, NoReason>>),
                 _memory_error_logs |-> Repeat(k, <<3, 0>>)]
          /\ func_calls = Repeat(k, <<1>>)
    /\ worker_pool = WorkerPool
    /\ pc = "idle"
    /\ mode = "none"
    /\ call = NoCall
    /\ batch = NoBatch
    /\ flight = NoFlight
    /\ outcome = [kind |-> "none"]
    /\ base = Snapshot
    /\ env_changes = 0
    /\ policy_probe = NoProbe

----------------------------------------------------------------------------
(* MemoryConstrainedExecutionHandler.execute_with_memory_check *)

\* mutant: a missing estimator is taken as an estimate of 0 and the gate still runs
enter_always_gated(func, has_estimator, args) ==
    /\ call' = [func |-> func, has_estimator |-> has_estimator, args |-> args,
                estimated_usage |-> IF has_estimator THEN -1 ELSE 0, decision |-> "unchecked"]
    /\ pc' = IF has_estimator THEN "estimate" ELSE "check"

\* entering the function: the frame, and the test of memory_estimator against None
enter(func, has_estimator, args) ==
    /\ call' = [func |-> func, has_estimator |-> has_estimator, args |-> args,
                estimated_usage |-> -1, decision |-> "unchecked"]
    /\ pc' = IF has_estimator THEN "estimate" ELSE "admitted"

\* the caller invokes handler.execute_with_memory_check(func, memory_estimator, *args)
call_single ==
    /\ pc = "idle"
    /\ outcome.kind = "none"
    /\ \E func \in Funcs, has_estimator \in BOOLEAN, args \in ArgTuples :
          enter(func, has_estimator, args)
    /\ mode' = "single"
    /\ batch' = NoBatch
    /\ flight' = NoFlight
    /\ outcome' = [kind |-> "none"]
    /\ base' = Snapshot
    /\ UNCHANGED <<worker_pool, ports, env_changes, policy_probe>>

\* mutant: within a batch the estimate of an argument tuple seen before is reused
estimate_cached ==
    /\ pc = "estimate"
    /\ \E e \in Estimates : call' = [call EXCEPT !.estimated_usage = e]
    /\ memory_estimator' =
          IF /\ mode = "batch"
             /\ \E j \in 1 .. (batch.idx - 1) : batch.args_list[j] = call.args
          THEN memory_estimator
          ELSE [memory_estimator EXCEPT !._call_count = @ + 1,
                                        !._call_history = Append(@, call.args)]
    /\ pc' = "check"
    /\ UNCHANGED <<worker_pool, memory_monitor, memory_policy, execution_decision, func_calls, mode, batch,
                   flight, outcome, base, env_changes, policy_probe>>

\* estimated_usage = memory_estimator.estimate_memory_usage(*args, **kwargs)
estimate ==
    /\ pc = "estimate"
    /\ \E e \in Estimates : call' = [call EXCEPT !.estimated_usage = e]
    /\ memory_estimator' = [memory_estimator EXCEPT !._call_count = @ + 1,
                                                    !._call_history = Append(@, call.args)]
    /\ pc' = "check"
    /\ UNCHANGED <<worker_pool, memory_monitor, memory_policy, execution_decision, func_calls, mode, batch,
                   flight, outcome, base, env_changes, policy_probe>>

\* mutant: should_execute is given the margin-reduced figure instead of the monitor's reading
_check_memory_availability_reduced ==
    /\ pc = "check"
    /\ LET available_memory == memory_monitor._available_memory
           safe_available == get_safe_available_memory(memory_policy, available_memory)
           ok == should_execute(memory_policy, call.estimated_usage, safe_available)
       IN /\ memory_monitor' = [memory_monitor EXCEPT !.queries = @ + 1]
          /\ execution_decision' = log_memory_check(execution_decision, call.estimated_usage,
                                                    available_memory, safe_available)
          /\ memory_policy' = after_should_execute(memory_policy, call.estimated_usage,
                                                   safe_available)
          /\ call' = [call EXCEPT !.decision = IF ok THEN "admitted" ELSE "refused"]
          /\ pc' = IF ok THEN "admitted" ELSE "refused"
    /\ UNCHANGED <<worker_pool, memory_estimator, func_calls, mode, batch, flight, outcome, base,
                   env_changes, policy_probe>>

\* if not self._check_memory_availability(estimated_usage): the whole helper
_check_memory_availability ==
    /\ pc = "check"
    /\ LET available_memory == memory_monitor._available_memory
           safe_available == get_safe_available_memory(memory_policy, available_memory)
           ok == should_execute(memory_policy, call.estimated_usage, available_memory)
       IN /\ memory_monitor' = [memory_monitor EXCEPT !.queries = @ + 1]
          /\ execution_decision' = log_memory_check(execution_decision, call.estimated_usage,
                                                    available_memory, safe_available)
          /\ memory_policy' = after_should_execute(memory_policy, call.estimated_usage,
                                                   available_memory)
          /\ call' = [call EXCEPT !.decision = IF ok THEN "admitted" ELSE "refused"]
          /\ pc' = IF ok THEN "admitted" ELSE "refused"
    /\ UNCHANGED <<worker_pool, memory_estimator, func_calls, mode, batch, flight, outcome, base,
                   env_changes, policy_probe>>

\* mutant: the refusal is logged but not raised, and the call goes on to run func
refuse_without_raise ==
    /\ pc = "refused"
    /\ memory_monitor' = [memory_monitor EXCEPT !.queries = @ + 1]
    /\ execution_decision' = log_memory_error(execution_decision, call.estimated_usage,
                                              memory_monitor._available_memory)
    /\ pc' = "admitted"
    /\ UNCHANGED <<worker_pool, memory_estimator, memory_policy, func_calls, mode, call, batch, flight,
                   outcome, base, env_changes, policy_probe>>

\* the refusal branch: second monitor query, log_memory_error, raise MemoryError(error_msg)
refuse ==
    /\ pc = "refused"
    /\ LET available_memory == memory_monitor._available_memory
       IN /\ memory_monitor' = [memory_monitor EXCEPT !.queries = @ + 1]
          /\ execution_decision' = log_memory_error(execution_decision, call.estimated_usage,
                                                    available_memory)
    /\ flight' = [kind |-> "raise",
                  exc |-> [type |-> "MemoryError", msg |-> error_msg(call.estimated_usage)]]
    /\ pc' = "raised"
    /\ UNCHANGED <<worker_pool, memory_estimator, memory_policy, func_calls, mode, call, batch, outcome,
                   base, env_changes, policy_probe>>

\* mutant: the admission is recorded twice
log_admitted_twice ==
    /\ pc = "admitted"
    /\ execution_decision' =
          log_execution_decision(
              log_execution_decision(execution_decision, name_of(call.func), TRUE, NoReason),
              name_of(call.func), TRUE, NoReason)
    /\ pc' = "run"
    /\ UNCHANGED <<worker_pool, memory_monitor, memory_estimator, memory_policy, func_calls, mode, call,
                   batch, flight, outcome, base, env_changes, policy_probe>>

\* self.execution_decision.log_execution_decision(func.__name__, True)
log_admitted ==
    /\ pc = "admitted"
    /\ execution_decision' = log_execution_decision(execution_decision, name_of(call.func),
                                                    TRUE, NoReason)
    /\ pc' = "run"
    /\ UNCHANGED <<worker_pool, memory_monitor, memory_estimator, memory_policy, func_calls, mode, call,
                   batch, flight, outcome, base, env_changes, policy_probe>>

\* return func(*args, **kwargs)
run_func ==
    /\ pc = "run"
    /\ func_calls' = Append(func_calls, call.args)
    /\ flight' = Callable(call.func, call.args)
    /\ pc' = IF Callable(call.func, call.args).kind = "return" THEN "returned" ELSE "raised"
    /\ UNCHANGED <<worker_pool, memory_monitor, memory_estimator, memory_policy, execution_decision, mode,
                   call, batch, outcome, base, env_changes, policy_probe>>

\* a direct call returns to its caller, or its exception reaches the caller
single_done ==
    /\ mode = "single"
    /\ pc \in {"returned", "raised"}
    /\ outcome' = flight
    /\ flight' = NoFlight
    /\ pc' = "idle"
    /\ UNCHANGED <<worker_pool, ports, mode, call, batch, base, env_changes, policy_probe>>

----------------------------------------------------------------------------
(* MemoryConstrainedExecutionHandler.execute_batch_with_memory_check *)

ArgLists == UNION {[1 .. n -> ArgTuples] : n \in 0 .. MaxBatch}

\* the caller invokes the batch; results = [], skipped_count = 0.
\* verdicts keeps, per finished entry, the decision field of its call frame.
call_batch ==
    /\ pc = "idle"
    /\ outcome.kind = "none"
    /\ \E func \in Funcs, has_estimator \in BOOLEAN, args_list \in ArgLists :
          batch' = [func |-> func, has_estimator |-> has_estimator, args_list |-> args_list,
                    idx |-> 1, results |-> <<>>, skipped_count |-> 0, verdicts |-> <<>>]
    /\ mode' = "batch"
    /\ call' = NoCall
    /\ flight' = NoFlight
    /\ outcome' = [kind |-> "none"]
    /\ base' = Snapshot
    /\ pc' = "batch_loop"
    /\ UNCHANGED <<worker_pool, ports, env_changes, policy_probe>>

\* mutant: the loop takes the entries from the end of args_list
batch_next_from_end ==
    /\ pc = "batch_loop"
    /\ batch.idx <= Len(batch.args_list)
    /\ enter(batch.func, batch.has_estimator,
             batch.args_list[Len(batch.args_list) - batch.idx + 1])
    /\ UNCHANGED <<worker_pool, ports, mode, batch, flight, outcome, base, env_changes, policy_probe>>

\* for args in args_list: result = self.execute_with_memory_check(func, memory_estimator, *args)
batch_next ==
    /\ pc = "batch_loop"
    /\ batch.idx <= Len(batch.args_list)
    /\ enter(batch.func, batch.has_estimator, batch.args_list[batch.idx])
    /\ UNCHANGED <<worker_pool, ports, mode, batch, flight, outcome, base, env_changes, policy_probe>>

\* results.append(result)
batch_append ==
    /\ mode = "batch"
    /\ pc = "returned"
    /\ batch' = [batch EXCEPT !.results = Append(@, flight.value),
                              !.verdicts = Append(@, call.decision),
                              !.idx = @ + 1]
    /\ flight' = NoFlight
    /\ pc' = "batch_loop"
    /\ UNCHANGED <<worker_pool, ports, mode, call, outcome, base, env_changes, policy_probe>>

\* mutant: a skipped entry leaves no slot in results
batch_except_drops ==
    /\ mode = "batch"
    /\ pc = "raised"
    /\ flight.exc.type = "MemoryError"
    /\ execution_decision' = log_execution_decision(execution_decision, name_of(batch.func),
                                                    FALSE, flight.exc.msg)
    /\ batch' = [batch EXCEPT !.skipped_count = @ + 1,
                              !.verdicts = Append(@, call.decision),
                              !.idx = @ + 1]
    /\ flight' = NoFlight
    /\ pc' = "batch_loop"
    /\ UNCHANGED <<worker_pool, memory_monitor, memory_estimator, memory_policy, func_calls, mode, call,
                   outcome, base, env_changes, policy_probe>>

\* mutant: the MemoryError is logged and raised again, ending the batch
batch_except_reraises ==
    /\ mode = "batch"
    /\ pc = "raised"
    /\ flight.exc.type = "MemoryError"
    /\ execution_decision' = log_execution_decision(execution_decision, name_of(batch.func),
                                                    FALSE, flight.exc.msg)
    /\ outcome' = flight
    /\ flight' = NoFlight
    /\ pc' = "idle"
    /\ UNCHANGED <<worker_pool, memory_monitor, memory_estimator, memory_policy, func_calls, mode, call,
                   batch, base, env_changes, policy_probe>>

\* except MemoryError as e: log the skip, skipped_count += 1, results.append(None)
batch_except ==
    /\ mode = "batch"
    /\ pc = "raised"
    /\ flight.exc.type = "MemoryError"
    /\ execution_decision' = log_execution_decision(execution_decision, name_of(batch.func),
                                                    FALSE, flight.exc.msg)
    /\ batch' = [batch EXCEPT !.results = Append(@, None),
                              !.skipped_count = @ + 1,
                              !.verdicts = Append(@, call.decision),
                              !.idx = @ + 1]
    /\ flight' = NoFlight
    /\ pc' = "batch_loop"
    /\ UNCHANGED <<worker_pool, memory_monitor, memory_estimator, memory_policy, func_calls, mode, call,
                   outcome, base, env_changes, policy_probe>>

\* mutant: the handler catches every Exception and skips the entry
batch_abort_swallows ==
    /\ mode = "batch"
    /\ pc = "raised"
    /\ flight.exc.type # "MemoryError"
    /\ batch' = [batch EXCEPT !.results = Append(@, None),
                              !.skipped_count = @ + 1,
                              !.verdicts = Append(@, call.decision),
                              !.idx = @ + 1]
    /\ flight' = NoFlight
    /\ pc' = "batch_loop"
    /\ UNCHANGED <<worker_pool, ports, mode, call, outcome, base, env_changes, policy_probe>>

\* any other exception leaves the loop and the function
batch_abort ==
    /\ mode = "batch"
    /\ pc = "raised"
    /\ flight.exc.type # "MemoryError"
    /\ outcome' = flight
    /\ flight' = NoFlight
    /\ pc' = "idle"
    /\ UNCHANGED <<worker_pool, ports, mode, call, batch, base, env_changes, policy_probe>>

\* after the loop: the aggregate event if skipped_count > 0, then return results
batch_finish ==
    /\ pc = "batch_loop"
    /\ batch.idx > Len(batch.args_list)
    /\ execution_decision' =
          IF batch.skipped_count > 0
          THEN log_execution_decision(execution_decision, batch_name_of(batch.func), FALSE,
                                      skipped_msg(batch.skipped_count, Len(batch.args_list)))
          ELSE execution_decision
    /\ outcome' = [kind |-> "return", value |-> batch.results]
    /\ pc' = "idle"
    /\ UNCHANGED <<worker_pool, memory_monitor, memory_estimator, memory_policy, func_calls, mode, call,
                   batch, flight, base, env_changes, policy_probe>>

----------------------------------------------------------------------------
(* Reconfiguration of the mocks while a call is in progress (by the        *)
(* estimator, by another thread of the test, by the system for a real      *)
(* monitor). A change is taken right before a step that reads the changed  *)
(* field; a change at any other moment is indistinguishable from it.       *)

\* MockMemoryMonitor.set_available_memory
set_available_memory ==
    /\ env_changes < MaxEnvChanges
    /\ pc \in {"check", "refused"}
    /\ \E a \in MemoryLevels \ {memory_monitor._available_memory} :
          memory_monitor' = after_set_available_memory(memory_monitor, a)
    /\ env_changes' = env_changes + 1
    /\ UNCHANGED <<worker_pool, memory_estimator, memory_policy, execution_decision, func_calls, frames,
                   policy_probe>>

\* MockMemoryPolicy.set_should_execute
set_should_execute ==
    /\ env_changes < MaxEnvChanges
    /\ pc = "check"
    /\ memory_policy.kind = "mock"
    /\ memory_policy' = [memory_policy EXCEPT !._should_execute = ~@]
    /\ env_changes' = env_changes + 1
    /\ UNCHANGED <<worker_pool, memory_monitor, memory_estimator, execution_decision, func_calls, frames,
                   policy_probe>>

----------------------------------------------------------------------------
(* MemoryConstrainedExecutionHandler.get_memory_info *)

\* the caller invokes handler.get_memory_info(): the monitor's snapshot with
\* safe_available replaced by the policy's figure, returned as a dict
get_memory_info ==
    /\ pc = "idle"
    /\ outcome.kind = "none"
    /\ LET memory_info == MemoryInfo(memory_monitor)
           safe_available == get_safe_available_memory(memory_policy, memory_info.available)
       IN outcome' = [kind |-> "return",
                      value |-> [total |-> memory_info.total,
                                 available |-> memory_info.available,
                                 used |-> memory_info.used,
                                 percent |-> memory_info.percent,
                                 safe_available |-> safe_available]]
    /\ mode' = "info"
    /\ UNCHANGED <<worker_pool, ports, pc, call, batch, flight, base, env_changes, policy_probe>>

----------------------------------------------------------------------------
(* ExecutionHandler: the worker pool *)

\* the caller invokes handler.execute(func, *args): one worker_pool.map request
\* with the single argument tuple; the worker runs func, and map hands back its
\* result or raises its exception
execute ==
    /\ pc = "idle"
    /\ outcome.kind = "none"
    /\ \E func \in Funcs, args \in ArgTuples :
          /\ worker_pool' = [worker_pool EXCEPT !.map_calls = Append(@, <<func, <<args>>>>)]
          /\ func_calls' = Append(func_calls, args)
          /\ outcome' = Callable(func, args)
    /\ mode' = "pool"
    /\ base' = Snapshot
    /\ UNCHANGED <<memory_monitor, memory_estimator, memory_policy, execution_decision, pc, call,
                   batch, flight, env_changes, policy_probe>>

\* mutant: __exit__ returns True, and the with statement swallows the exception
__exit___suppresses ==
    /\ pc = "idle"
    /\ worker_pool' = [worker_pool EXCEPT !.state = "terminated"]
    /\ outcome' = IF outcome.kind = "raise" THEN [kind |-> "none"] ELSE outcome
    /\ pc' = "closed"
    /\ UNCHANGED <<ports, mode, call, batch, flight, base, env_changes, policy_probe>>

\* the with block over the handler is left, with or without an exception on its
\* way out: __exit__ terminates the pool and returns None, so what was leaving
\* the block goes on
__exit__ ==
    /\ pc = "idle"
    /\ worker_pool' = [worker_pool EXCEPT !.state = "terminated"]
    /\ pc' = "closed"
    /\ UNCHANGED <<ports, mode, call, batch, flight, outcome, base, env_changes, policy_probe>>

Next ==
    \/ call_single
    \/ estimate
    \/ _check_memory_availability
    \/ refuse
    \/ log_admitted
    \/ run_func
    \/ single_done
    \/ call_batch
    \/ batch_next
    \/ batch_append
    \/ batch_except
    \/ batch_abort
    \/ batch_finish
    \/ set_available_memory
    \/ set_should_execute
    \/ get_memory_info
    \/ execute
    \/ __exit__

Spec == Init /\ [][Next]_vars

----------------------------------------------------------------------------
(* The safety-margin policy with any margin the constructor accepts:       *)
(* called directly, as in test_safety_margin_policy_adapter, with any      *)
(* estimate and any available memory, and behind get_memory_info of a      *)
(* handler built with it, as in test_memory_info_uses_ports.               *)

PolicyInit ==
    /\ \E a \in 0 .. TotalMemory : memory_monitor = MockMemoryMonitor(TotalMemory, a)
    /\ memory_estimator = MockMemoryEstimator
    /\ memory_policy \in {SafetyMarginMemoryPolicyAdapter(m) : m \in Margins}
    /\ execution_decision = MockExecutionDecision
    /\ func_calls = <<>>
    /\ worker_pool = WorkerPool
    /\ pc = "idle"
    /\ mode = "none"
    /\ call = NoCall
    /\ batch = NoBatch
    /\ flight = NoFlight
    /\ outcome = [kind |-> "none"]
    /\ base = Snapshot
    /\ env_changes = 0
    /\ policy_probe = NoProbe

\* policy.should_execute(estimated_usage, available_memory)
probe_should_execute ==
    /\ \E e \in ProbeBytes, a \in ProbeBytes :
          policy_probe' = [op |-> "should_execute", estimated_usage |-> e, available_memory |-> a,
                           ret |-> 0, answer |-> should_execute(memory_policy, e, a)]
    /\ memory_policy' = memory_policy
    /\ UNCHANGED <<worker_pool, memory_monitor, memory_estimator, execution_decision, func_calls, frames,
                   env_changes>>

\* policy.get_safe_available_memory(total_available)
probe_get_safe_available_memory ==
    /\ \E a \in ProbeBytes :
          policy_probe' = [op |-> "get_safe_available_memory", estimated_usage |-> 0,
                           available_memory |-> a,
                           ret |-> get_safe_available_memory(memory_policy, a), answer |-> FALSE]
    /\ memory_policy' = memory_policy
    /\ UNCHANGED <<worker_pool, memory_monitor, memory_estimator, execution_decision, func_calls, frames,
                   env_changes>>

PolicyNext ==
    \/ probe_should_execute
    \/ probe_get_safe_available_memory
    \/ get_memory_info

PolicySpec == PolicyInit /\ [][PolicyNext]_vars

----------------------------------------------------------------------------
(* Failing collaborators. The handler calls its monitor and its recorder   *)
(* without any try/except of its own, so an exception raised inside one of *)
(* these calls leaves _check_memory_availability and                       *)
(* execute_with_memory_check at once. A monitor fails with an exception of *)
(* the operating-system query (OSError) or, memory being short, with       *)
(* MemoryError; a recorder fails with the OSError of its log write.        *)
(* call.decision keeps how far the gate got: "monitor_failed",             *)
(* "check_log_failed" or "decision_log_failed".                            *)

MonitorFailures == {"OSError", "MemoryError"}

MonitorError(type) ==
    [kind |-> "raise",
     exc |-> [type |-> type, msg |-> [text |-> "memory query failed", a |-> 0, b |-> 0]]]

RecorderError ==
    [kind |-> "raise",
     exc |-> [type |-> "OSError", msg |-> [text |-> "log write failed", a |-> 0, b |-> 0]]]

\* available_memory = self.memory_monitor.get_available_memory() raises
monitor_fails ==
    /\ pc = "check"
    /\ \E type \in MonitorFailures : flight' = MonitorError(type)
    /\ memory_monitor' = [memory_monitor EXCEPT !.queries = @ + 1]
    /\ call' = [call EXCEPT !.decision = "monitor_failed"]
    /\ pc' = "raised"
    /\ UNCHANGED <<worker_pool, memory_estimator, memory_policy, execution_decision, func_calls, mode, batch,
                   outcome, base, env_changes, policy_probe>>

\* the monitor and the policy answer, then self.execution_decision.log_memory_check raises:
\* should_execute is not reached
log_memory_check_fails ==
    /\ pc = "check"
    /\ memory_monitor' = [memory_monitor EXCEPT !.queries = @ + 1]
    /\ flight' = RecorderError
    /\ call' = [call EXCEPT !.decision = "check_log_failed"]
    /\ pc' = "raised"
    /\ UNCHANGED <<worker_pool, memory_estimator, memory_policy, execution_decision, func_calls, mode, batch,
                   outcome, base, env_changes, policy_probe>>

\* self.execution_decision.log_execution_decision(func.__name__, True) raises:
\* the return statement with the call of func is not reached
log_execution_decision_fails ==
    /\ pc = "admitted"
    /\ flight' = RecorderError
    /\ call' = [call EXCEPT !.decision = "decision_log_failed"]
    /\ pc' = "raised"
    /\ UNCHANGED <<worker_pool, ports, mode, batch, outcome, base, env_changes, policy_probe>>

FaultNext ==
    \/ Next
    \/ monitor_fails
    \/ log_memory_check_fails
    \/ log_execution_decision_fails

FaultSpec == Init /\ [][FaultNext]_vars

----------------------------------------------------------------------------
(* Gated calls of read_file_to_string with a file-size estimator            *)
(* (FileSizeMemoryEstimatorAdapter and FileSizeMemoryEstimator have the     *)
(* same body). The argument is a file path:                                 *)
(*   1  an existing file, of any size up to MaxFileSize                     *)
(*   2  a missing or inaccessible file                                      *)
(*   3  a string that is no file name: it has an embedded null byte         *)

Multipliers == {<<2, 1>>, <<3, 2>>, <<1, 2>>}     \* multiplier: float = 2.0
FileArgs == {<<1>>, <<2>>, <<3>>}

FileSizeMemoryEstimatorAdapter(multiplier) == [kind |-> "file_size", multiplier |-> multiplier]

\* the exceptions caught by except (OSError, FileNotFoundError): OSError and its subclasses
OSErrors == {"OSError", "FileNotFoundError", "PermissionError"}

\* os.path.getsize(file_path): the answers of the operating system
getsize(file_path) ==
    CASE file_path = 1 -> {[kind |-> "return", value |-> n] : n \in 0 .. MaxFileSize}
      [] file_path = 2 ->
            {[kind |-> "raise", exc |-> [type |-> type, msg |-> NoReason]] :
                type \in {"FileNotFoundError", "PermissionError"}}
      [] file_path = 3 ->
            {[kind |-> "raise", exc |-> [type |-> "ValueError", msg |-> NoReason]]}

\* estimate_memory_usage(file_path) given what getsize did: int(file_size * self.multiplier),
\* 0 if getsize raised an OSError; any other exception is not caught
estimate_memory_usage(estimator, stat) ==
    IF stat.kind = "return"
    THEN [kind |-> "return",
          value |-> int(stat.value * estimator.multiplier[1], estimator.multiplier[2])]
    ELSE IF stat.exc.type \in OSErrors
         THEN [kind |-> "return", value |-> 0]
         ELSE stat

EstimatorInit ==
    /\ \E a \in MemoryLevels : memory_monitor = MockMemoryMonitor(TotalMemory, a)
    /\ memory_estimator \in {FileSizeMemoryEstimatorAdapter(m) : m \in Multipliers}
    /\ memory_policy \in HandlerPolicies \cup {SafetyMarginMemoryPolicyAdapter(m) : m \in Margins}
    /\ execution_decision = MockExecutionDecision
    /\ func_calls = <<>>
    /\ worker_pool = WorkerPool
    /\ pc = "idle"
    /\ mode = "none"
    /\ call = NoCall
    /\ batch = NoBatch
    /\ flight = NoFlight
    /\ outcome = [kind |-> "none"]
    /\ base = [estimates |-> 0, decisions |-> 0, queries |-> 0, checks |-> 0,
               decision_logs |-> 0, errors |-> 0, func_calls |-> 0, map_calls |-> 0]
    /\ env_changes = 0
    /\ policy_probe = NoProbe

\* handler.execute_with_memory_check(read_file_to_string, file_estimator, file_path)
call_with_file_estimator ==
    /\ pc = "idle"
    /\ outcome.kind = "none"
    /\ \E args \in FileArgs : enter("read_file_to_string", TRUE, args)
    /\ mode' = "single"
    /\ UNCHANGED <<worker_pool, ports, batch, flight, outcome, base, env_changes, policy_probe>>

\* estimated_usage = memory_estimator.estimate_memory_usage(*args, **kwargs) with a
\* file-size estimator: the estimate, or the exception the estimator let through
estimate_file_size ==
    /\ pc = "estimate"
    /\ \E stat \in getsize(call.args[1]) :
          LET result == estimate_memory_usage(memory_estimator, stat)
          IN /\ policy_probe' = [op |-> "estimate_memory_usage", stat |-> stat, result |-> result]
             /\ IF result.kind = "return"
                THEN /\ call' = [call EXCEPT !.estimated_usage = result.value]
                     /\ flight' = flight
                     /\ pc' = "check"
                ELSE /\ call' = call
                     /\ flight' = result
                     /\ pc' = "raised"
    /\ UNCHANGED <<worker_pool, memory_monitor, memory_estimator, memory_policy, execution_decision, func_calls,
                   mode, batch, outcome, base, env_changes>>

EstimatorNext ==
    \/ call_with_file_estimator
    \/ estimate_file_size
    \/ _check_memory_availability
    \/ refuse
    \/ log_admitted
    \/ run_func
    \/ single_done

EstimatorSpec == EstimatorInit /\ [][EstimatorNext]_vars

----------------------------------------------------------------------------
(* Definitions used to state the properties *)

\* floor(n / d) for d > 0
Floor(n, d) == n \div d

\* the margin is a fraction in [0, 1)
InUnitRange(margin) == 0 <= margin[1] /\ margin[1] < margin[2]

\* floor(a * (1 - margin))
FloorSafe(margin, a) == Floor(a * (margin[2] - margin[1]), margin[2])

----------------------------------------------------------------------------
----------------------------------------------------------------------------
(* What a top-level call has added to each call record *)

Completed == pc = "idle" /\ outcome.kind # "none"

NewEstimates == memory_estimator._call_count - base.estimates
NewDecisions == memory_policy._decision_count - base.decisions
NewQueries == memory_monitor.queries - base.queries
NewChecks == Len(execution_decision._memory_check_logs) - base.checks
NewDecisionLogs == Len(execution_decision._execution_decision_logs) - base.decision_logs
NewErrors == Len(execution_decision._memory_error_logs) - base.errors
NewFuncCalls == Len(func_calls) - base.func_calls

\* the MemoryError raised by the gate for the current call frame
GateError == [kind |-> "raise",
              exc |-> [type |-> "MemoryError", msg |-> error_msg(call.estimated_usage)]]

C3_AdmittedRuns ==
    (mode = "single" /\ call.has_estimator /\ call.decision = "admitted" /\ Completed) =>
        /\ NewFuncCalls = 1
        /\ func_calls[Len(func_calls)] = call.args
        /\ outcome = Callable(call.func, call.args)
        /\ memory_policy.kind = "mock" => NewDecisions = 1
        /\ NewChecks = 1
        /\ NewDecisionLogs = 1
        /\ execution_decision._execution_decision_logs[Len(execution_decision._execution_decision_logs)]
             = <<name_of(call.func), TRUE, NoReason>>

C3_Witness ==
    /\ mode = "single"
    /\ call.has_estimator
    /\ call.decision = "admitted"
    /\ Completed
    /\ memory_policy.kind = "mock"
    /\ base.decisions > 0
    /\ call.args = <<2>>
    /\ outcome = [kind |-> "return", value |-> PyInt(4)]

\* C4: without an estimator the callable is always invoked and what it produced
\* is handed back, whatever the monitor reads and whatever the policy would
\* answer; the policy is not asked, the monitor is not queried, the estimator is
\* not called and no memory-check or memory-error event is recorded.
C4_NoEstimatorNoGate ==
    (mode = "single" /\ ~call.has_estimator) =>
        /\ NewDecisions = 0
        /\ NewQueries = 0
        /\ NewChecks = 0
        /\ NewErrors = 0
        /\ NewEstimates = 0
        /\ Completed => /\ NewFuncCalls = 1
                        /\ func_calls[Len(func_calls)] = call.args
                        /\ outcome = Callable(call.func, call.args)

C4_Witness ==
    /\ mode = "single"
    /\ ~call.has_estimator
    /\ Completed
    /\ memory_policy.kind = "mock"
    /\ ~memory_policy._should_execute
    /\ memory_monitor._available_memory = 0
    /\ base.decisions > 0
    /\ outcome = [kind |-> "return", value |-> PyInt(2)]

----------------------------------------------------------------------------
(* Batches *)

BatchLen == Len(batch.args_list)

\* entries whose call frame ended with the policy having refused
Refused == {i \in 1 .. Len(batch.verdicts) : batch.verdicts[i] = "refused"}

\* what the callable does on entry i
OnEntry(i) == Callable(batch.func, batch.args_list[i])

NonMemoryRaise(o) == o.kind = "raise" /\ o.exc.type # "MemoryError"

\* no callable failure occurs: every entry is refused or its callable returns
NoCallableFailure ==
    \A i \in 1 .. BatchLen : \/ OnEntry(i).kind = "return"
                              \/ (i <= Len(batch.verdicts) /\ batch.verdicts[i] = "refused")

\* events recorded since the call started that carry the batch's aggregate name
AggregateEvents ==
    {k \in (base.decision_logs + 1) .. Len(execution_decision._execution_decision_logs) :
        execution_decision._execution_decision_logs[k][1] = batch_name_of(batch.func)}

\* C5: when no callable failure occurs, the batch returns one slot per entry, in
\* input order: the callable's result on the entry if it was admitted, the
\* skipped marker if it was refused.
C5_BatchOrderAndLength ==
    (mode = "batch" /\ Completed /\ NoCallableFailure) =>
        /\ outcome.kind = "return"
        /\ Len(outcome.value) = BatchLen
        /\ Len(batch.verdicts) = BatchLen
        /\ \A i \in 1 .. BatchLen :
              outcome.value[i] = IF i \in Refused THEN None ELSE OnEntry(i).value

C5_Witness ==
    /\ mode = "batch"
    /\ Completed
    /\ batch.func = "test_function"
    /\ batch.args_list = <<<<2>>, <<1>>>>
    /\ batch.verdicts = <<"refused", "admitted">>
    /\ outcome = [kind |-> "return", value |-> <<None, PyInt(2)>>]

\* C6: a memory refusal never ends the batch: a batch ends early only with an
\* exception of an invoked callable, and a batch that returns has estimated and
\* checked every entry and invoked the callable on every entry not refused.
C6_RefusalDoesNotAbort ==
    mode = "batch" =>
        /\ (pc = "raised" /\ call.decision = "refused") => flight.exc.type = "MemoryError"
        /\ (Completed /\ outcome.kind = "raise") =>
              /\ call.decision # "refused"
              /\ outcome = OnEntry(batch.idx)
        /\ (Completed /\ outcome.kind = "return") =>
              /\ Len(batch.verdicts) = BatchLen
              /\ NewEstimates = IF batch.has_estimator THEN BatchLen ELSE 0
              /\ NewChecks = IF batch.has_estimator THEN BatchLen ELSE 0
              /\ memory_policy.kind = "mock" =>
                    NewDecisions = IF batch.has_estimator THEN BatchLen ELSE 0
              /\ NewFuncCalls = BatchLen - Cardinality(Refused)

C6_Witness ==
    /\ mode = "batch"
    /\ Completed
    /\ outcome.kind = "return"
    /\ batch.verdicts = <<"refused", "admitted">>
    /\ NewEstimates = 2
    /\ NewFuncCalls = 1
    /\ func_calls[Len(func_calls)] = batch.args_list[2]

\* C7: the estimator is invoked exactly once per gated call, admitted or
\* refused, and once per batch entry: a batch that returns has made exactly n
\* estimator calls, one per entry in input order, also for repeated arguments.
C7_OneEstimatePerEntry ==
    /\ (mode = "single" /\ call.has_estimator) =>
          NewEstimates = IF pc = "estimate" THEN 0 ELSE 1
    /\ (mode = "batch" /\ batch.has_estimator) =>
          /\ pc = "batch_loop" => NewEstimates = batch.idx - 1
          /\ pc = "estimate" => NewEstimates = batch.idx - 1
          /\ pc \in {"check", "refused", "admitted", "run", "returned", "raised"} =>
                NewEstimates = batch.idx
          /\ (Completed /\ outcome.kind = "return") =>
                /\ NewEstimates = BatchLen
                /\ \A i \in 1 .. BatchLen :
                      memory_estimator._call_history[base.estimates + i] = batch.args_list[i]

C7_Witness ==
    /\ mode = "batch"
    /\ batch.has_estimator
    /\ Completed
    /\ outcome.kind = "return"
    /\ batch.args_list = <<<<1>>, <<1>>>>
    /\ base.estimates > 0
    /\ NewEstimates = 2

\* C8: when the callable of an admitted entry raises an exception other than
\* MemoryError, the batch ends there with that exception: no list is returned,
\* no later entry is estimated, checked or executed, and no aggregate event is
\* recorded.
C8_CallableFailureAborts ==
    mode = "batch" =>
        /\ \A j \in 1 .. Len(batch.verdicts) :
              batch.verdicts[j] # "refused" => ~NonMemoryRaise(OnEntry(j))
        /\ (pc = "raised" /\ NonMemoryRaise(flight)) =>
              /\ flight = OnEntry(batch.idx)
              /\ call.decision # "refused"
        /\ (Completed /\ outcome.kind = "raise") =>
              /\ NonMemoryRaise(outcome)
              /\ outcome = OnEntry(batch.idx)
              /\ Len(batch.verdicts) = batch.idx - 1
              /\ Len(batch.results) = batch.idx - 1
              /\ NewEstimates = IF batch.has_estimator THEN batch.idx ELSE 0
              /\ NewChecks = IF batch.has_estimator THEN batch.idx ELSE 0
              /\ NewFuncCalls = batch.idx - Cardinality(Refused)
              /\ AggregateEvents = {}

C8_Witness ==
    /\ mode = "batch"
    /\ batch.has_estimator
    /\ Completed
    /\ outcome.kind = "raise"
    /\ outcome.exc.type = "FileNotFoundError"
    /\ batch.args_list = <<<<2>>, <<1>>>>
    /\ batch.idx = 1
    /\ NewEstimates = 1
    /\ NewFuncCalls = 1

\* C9 (as claimed): in a batch an entry is skipped (slot None, decision False
\* recorded, skipped count grown) only if the policy refused it, never because
\* the callable raised.
C9_SkipOnlyOnRefusal ==
    mode = "batch" => batch.skipped_count = Cardinality(Refused)

\* C10 (as claimed): in the returned list, slot i is the skipped marker if and
\* only if entry i was refused for memory.
C10_MarkerIffRefused ==
    (mode = "batch" /\ Completed /\ outcome.kind = "return") =>
        \A i \in 1 .. Len(outcome.value) : (outcome.value[i] = None) <=> (i \in Refused)

----------------------------------------------------------------------------
(* The refusal error and the decision events *)

\* the figures a message prints: one per placeholder of its text
Figures(msg) ==
    CASE msg.text = error_msg(0).text -> {msg.a}
      [] msg.text = skipped_msg(0, 0).text -> {msg.a, msg.b}
      [] OTHER -> {}

\* the last memory-error event: the (estimated, available) pair of the refusal
LastMemoryError ==
    execution_decision._memory_error_logs[Len(execution_decision._memory_error_logs)]

\* the last decision event
LastDecisionLog ==
    execution_decision._execution_decision_logs[Len(execution_decision._execution_decision_logs)]

\* C11 (as claimed): the error raised on a refusal carries the estimated usage
\* and the available memory of that call as its own fields, and its message
\* prints both the estimated and the available byte figure.
C11_RefusalErrorCarriesFigures ==
    (mode = "single" /\ call.decision = "refused" /\ Completed) =>
        /\ outcome.kind = "raise"
        /\ {"estimated_usage", "available_memory"} \subseteq DOMAIN outcome.exc
        /\ {LastMemoryError[1], LastMemoryError[2]} \subseteq Figures(outcome.exc.msg)

\* C12 (as claimed): a single call with an estimator records exactly one decision
\* event (callable name, admitted) whose flag is the policy's answer, on both
\* outcomes: True before the callable is run, False before the error is raised.
C12_DecisionEventOnBothOutcomes ==
    (mode = "single" /\ call.has_estimator /\ call.decision \in {"admitted", "refused"}) =>
        /\ pc \in {"admitted", "refused"} => NewDecisionLogs = 0
        /\ pc \in {"run", "returned", "raised", "idle"} =>
              /\ NewDecisionLogs = 1
              /\ LastDecisionLog[1] = name_of(call.func)
              /\ LastDecisionLog[2] = (call.decision = "admitted")

\* C13 (as claimed): a batch that has processed all its entries has recorded
\* exactly one event (batch_<callable name>, False) if at least one entry was
\* skipped, that is refused for memory, with a reason stating the number of
\* skipped entries and the number of input entries, and no such event if no
\* entry was skipped; no such event is recorded before the loop has ended.
C13_AggregateEventIffSkipped ==
    mode = "batch" =>
        /\ ~Completed => AggregateEvents = {}
        /\ (Completed /\ outcome.kind = "return") =>
              IF Refused = {}
              THEN AggregateEvents = {}
              ELSE /\ Cardinality(AggregateEvents) = 1
                   /\ \A k \in AggregateEvents :
                         execution_decision._execution_decision_logs[k]
                           = <<batch_name_of(batch.func), FALSE,
                               skipped_msg(Cardinality(Refused), BatchLen)>>

----------------------------------------------------------------------------
(* get_memory_info and the safe-available figure *)

\* the dict a completed get_memory_info call returned
InfoReturned == mode = "info" /\ Completed /\ outcome.kind = "return"

\* n / d as an exact comparison: x <= n / d for d > 0
AtMostQuotient(x, n, d) == x * d <= n

\* C14 (as claimed): get_memory_info returns total, available, used and percent
\* exactly as in the monitor's snapshot and safe_available equal to
\* policy.get_safe_available_memory(snapshot.available), not the snapshot's own
\* safe_available; with the safety-margin policy this is floor(available * (1 - margin)).
C14_MemoryInfoMerged ==
    InfoReturned =>
        LET snapshot == MemoryInfo(memory_monitor)
            info == outcome.value
        IN /\ DOMAIN info = {"total", "available", "used", "percent", "safe_available"}
           /\ info.total = snapshot.total
           /\ info.available = snapshot.available
           /\ info.used = snapshot.used
           /\ info.percent = snapshot.percent
           /\ info.safe_available = get_safe_available_memory(memory_policy, snapshot.available)
           /\ memory_policy.kind = "safety_margin" =>
                 info.safe_available = FloorSafe(memory_policy.safety_margin, snapshot.available)

\* C15 (as claimed): get_safe_available_memory(a) of the safety-margin policy is
\* floor(a * (1 - margin)) for every a >= 0: the conversion never rounds up, so
\* the result never exceeds the exact product.
C15_SafeAvailableIsFloor ==
    policy_probe.op = "get_safe_available_memory" =>
        /\ policy_probe.ret = FloorSafe(memory_policy.safety_margin, policy_probe.available_memory)
        /\ AtMostQuotient(policy_probe.ret,
                          policy_probe.available_memory
                            * (memory_policy.safety_margin[2] - memory_policy.safety_margin[1]),
                          memory_policy.safety_margin[2])

\* C16 (as claimed): the safety margin of every constructed safety-margin policy
\* is a fraction in [0,1), whatever the constructor was given, and no operation
\* changes it afterwards.
C16_MarginInRangeAndFixed ==
    /\ [](memory_policy.kind = "safety_margin" => InUnitRange(memory_policy.safety_margin))
    /\ [][memory_policy'.safety_margin = memory_policy.safety_margin]_vars

\* C17 (as claimed): every safe-available figure is at most the available figure
\* it was derived from: get_safe_available_memory(a) <= a for every policy
\* instance and every a >= 0, and safe_available <= available in every dict
\* returned by get_memory_info.
C17_SafeAtMostAvailable ==
    /\ policy_probe.op = "get_safe_available_memory" =>
          policy_probe.ret <= policy_probe.available_memory
    /\ InfoReturned => outcome.value.safe_available <= outcome.value.available

----------------------------------------------------------------------------
(* Failures of the monitor and of the recorder *)

MonitorErrors == {MonitorError(type) : type \in MonitorFailures}

\* C18 (as claimed): a monitor failure during the check of a gated call reaches
\* the caller unchanged: the callable is not executed, no memory refusal is
\* recorded or raised in its place, and in a batch it ends the batch and leaves
\* no slot, skipped or other, for the entry.
C18_MonitorFailurePropagates ==
    /\ (pc = "raised" /\ call.decision = "monitor_failed") => flight \in MonitorErrors
    /\ (mode = "single" /\ call.decision = "monitor_failed") =>
          /\ NewFuncCalls = 0
          /\ NewErrors = 0
          /\ Completed => outcome \in MonitorErrors
    /\ mode = "batch" =>
          /\ \A j \in 1 .. Len(batch.verdicts) : batch.verdicts[j] # "monitor_failed"
          /\ (call.decision = "monitor_failed" /\ pc # "raised") =>
                /\ Completed
                /\ outcome \in MonitorErrors
                /\ Len(batch.results) = batch.idx - 1
                /\ AggregateEvents = {}

\* the answer the policy gives, or would have given, for the current call frame
PolicyAdmits ==
    should_execute(memory_policy, call.estimated_usage, memory_monitor._available_memory)

\* C19 (as claimed): a failure of log_memory_check or of log_execution_decision
\* during a gated call that the policy admits does not abort the call: the
\* callable is still executed, once, and what it produced is handed back.
C19_RecorderFailureTolerated ==
    (/\ mode = "single"
     /\ call.has_estimator
     /\ Completed
     /\ \/ call.decision = "decision_log_failed"
        \/ (call.decision = "check_log_failed" /\ PolicyAdmits)) =>
        /\ NewFuncCalls = 1
        /\ func_calls[Len(func_calls)] = call.args
        /\ outcome = Callable(call.func, call.args)

----------------------------------------------------------------------------
(* File-size estimators *)

\* C20 (as claimed): a file-size estimator never fails: it returns 0 when the
\* size of the file cannot be read and floor(file_size * multiplier) otherwise,
\* and no gated call ends with an exception of its estimating step.
C20_FileSizeEstimatorNeverFails ==
    /\ policy_probe.op = "estimate_memory_usage" =>
          /\ policy_probe.result.kind = "return"
          /\ policy_probe.result.value =
                IF policy_probe.stat.kind = "return"
                THEN Floor(policy_probe.stat.value * memory_estimator.multiplier[1],
                           memory_estimator.multiplier[2])
                ELSE 0
    /\ (call.has_estimator /\ pc = "raised") => call.estimated_usage >= 0

----------------------------------------------------------------------------
(* The worker pool *)

NewMapCalls == Len(worker_pool.map_calls) - base.map_calls

\* C21: when the with block over the handler has been left, without a call, after
\* a call that returned or with the exception of a call (the gate's MemoryError
\* included), the pool has been terminated, and what the call raised is still
\* the exception on its way out.
C21_PoolReleasedOnExit ==
    pc = "closed" =>
        /\ worker_pool.state = "terminated"
        /\ mode = "none" => outcome.kind = "none"
        /\ (mode = "single" /\ call.decision = "refused") => outcome = GateError
        /\ (mode = "single" /\ call.decision # "refused") => outcome = Callable(call.func, call.args)
        /\ (mode = "batch" /\ Len(batch.verdicts) < BatchLen) =>
              /\ outcome.kind = "raise"
              /\ outcome = OnEntry(batch.idx)
        /\ (mode = "batch" /\ Len(batch.verdicts) = BatchLen) =>
              outcome = [kind |-> "return", value |-> batch.results]
        /\ mode = "pool" =>
              outcome = Callable(worker_pool.map_calls[Len(worker_pool.map_calls)][1],
                                 worker_pool.map_calls[Len(worker_pool.map_calls)][2][1])
        /\ mode = "info" => outcome.kind = "return"

C21_Witness ==
    /\ pc = "closed"
    /\ worker_pool.state = "terminated"
    /\ mode = "single"
    /\ call.decision = "refused"
    /\ outcome = GateError

\* C22 (as claimed): every admitted execute_with_memory_check call makes exactly
\* one run request to the handler's worker pool, with the callable and the
\* original arguments, and the callable runs by no other route.
C22_AdmittedRunsThroughPool ==
    (mode = "single" /\ Completed /\ call.decision # "refused") =>
        /\ NewMapCalls = 1
        /\ worker_pool.map_calls[Len(worker_pool.map_calls)] = <<call.func, <<call.args>>>>
        /\ NewFuncCalls = NewMapCalls

----------------------------------------------------------------------------
(* Order of the steps of a gated call and of a batch *)

\* the last memory-check event: (estimated, available, safe_available)
LastMemoryCheck ==
    execution_decision._memory_check_logs[Len(execution_decision._memory_check_logs)]

\* the last (estimated_usage, available_memory) pair the mock policy was asked about
LastDecision == memory_policy._decision_history[Len(memory_policy._decision_history)]

\* C23 (as claimed): on a refusal the (estimated, available) pair of the
\* memory-error event is the pair that was given to policy.should_execute for
\* that call, also when the monitor's reading changes between two queries.
C23_RefusalPairConsistent ==
    (call.has_estimator /\ call.decision = "refused" /\ pc # "refused") =>
        /\ LastMemoryError = <<LastMemoryCheck[1], LastMemoryCheck[2]>>
        /\ memory_policy.kind = "mock" => LastMemoryError = LastDecision

\* a call frame of execute_with_memory_check is active
Active == pc \in {"estimate", "check", "admitted", "refused", "run", "returned", "raised"}

\* batch entries finished before the active frame
Prior == IF mode = "batch" THEN batch.idx - 1 ELSE 0

Executed ==
    {j \in 1 .. Len(batch.verdicts) : batch.verdicts[j] # "refused"}
      \cup (IF \/ (pc \in {"returned", "raised"} /\ call.decision # "refused")
               \/ (pc \in {"idle", "closed"} /\ outcome.kind = "raise")
            THEN {batch.idx} ELSE {})

\* C25: a batch takes its entries one at a time in input order: when the
\* estimator is invoked for an entry, every earlier entry has been estimated,
\* checked, decided and, if admitted, executed and has its slot; the estimator's
\* call history and the callable's invocations follow the input order.
C25_BatchSequential ==
    mode = "batch" =>
        /\ batch.idx = Len(batch.verdicts) + 1
        /\ Len(batch.results) = Len(batch.verdicts)
        /\ (pc = "estimate" /\ batch.has_estimator) =>
              /\ NewEstimates = batch.idx - 1
              /\ NewChecks = batch.idx - 1
              /\ NewErrors = Cardinality(Refused)
              /\ NewFuncCalls = batch.idx - 1 - Cardinality(Refused)
        /\ batch.has_estimator =>
              \A i \in 1 .. NewEstimates :
                 memory_estimator._call_history[base.estimates + i] = batch.args_list[i]
        /\ NewFuncCalls = Cardinality(Executed)
        /\ \A j \in Executed :
              func_calls[base.func_calls + Cardinality({i \in Executed : i <= j})]
                = batch.args_list[j]

C25_Witness ==
    /\ mode = "batch"
    /\ batch.has_estimator
    /\ Completed
    /\ batch.args_list = <<<<2>>, <<1>>>>
    /\ batch.verdicts = <<"admitted", "admitted">>
    /\ base.func_calls > 0
    /\ NewFuncCalls = 2
    /\ func_calls[base.func_calls + 1] = <<2>>
    /\ func_calls[base.func_calls + 2] = <<1>>

\* C26 (as claimed): a batch over n entries that has returned has recorded
\* exactly one per-entry decision event for each entry, in input order, True
\* for the entries whose slot is a result and False for the skipped ones; with
\* the aggregate event that makes n events when nothing was skipped and n + 1
\* otherwise.
C26_OneDecisionEventPerEntry ==
    (mode = "batch" /\ Completed /\ outcome.kind = "return") =>
        /\ NewDecisionLogs = BatchLen + (IF Refused = {} THEN 0 ELSE 1)
        /\ NewDecisionLogs >= BatchLen
        /\ \A i \in 1 .. BatchLen :
              LET event == execution_decision._execution_decision_logs[base.decision_logs + i]
              IN /\ event[1] = name_of(batch.func)
                 /\ event[2] = (i \notin Refused)

----------------------------------------------------------------------------
(* A zero estimate *)

\* the estimator of the current call returned 0
ZeroEstimate ==
    /\ policy_probe.op = "estimate_memory_usage"
    /\ policy_probe.result = [kind |-> "return", value |-> 0]

\* C27: a gated call whose estimator returns 0 (a failed file-size estimate
\* included) is admitted by a safety-margin policy with margin in [0, 1) whatever
\* the monitor reads, 0 included: no refusal, no memory-error event, and the
\* callable runs once.
C27_ZeroEstimateAdmitted ==
    (/\ ZeroEstimate
     /\ memory_policy.kind = "safety_margin"
     /\ InUnitRange(memory_policy.safety_margin)) =>
        /\ call.estimated_usage = 0
        /\ should_execute(memory_policy, 0, memory_monitor._available_memory)
        /\ pc # "refused"
        /\ call.decision \in {"unchecked", "admitted"}
        /\ pc # "check" => call.decision = "admitted"
        /\ execution_decision._memory_error_logs = <<>>
        /\ Completed => /\ func_calls = <<call.args>>
                        /\ outcome = Callable(call.func, call.args)

C27_Witness ==
    /\ ZeroEstimate
    /\ policy_probe.stat.kind = "raise"
    /\ memory_policy.kind = "safety_margin"
    /\ memory_policy.safety_margin = <<9, 10>>
    /\ memory_monitor._available_memory = 0
    /\ execution_decision._memory_check_logs = <<<<0, 0, 0>>>>
    /\ Completed
    /\ func_calls = <<call.args>>

----------------------------------------------------------------------------
(* Monotonicity of the admission rule *)

\* C28: for a safety-margin policy with a fixed margin in [0, 1), if
\* should_execute(e, a) is true then should_execute(e2, a2) is true for every
\* e2 <= e and a2 >= a.
C28_AdmissionMonotone ==
    (/\ policy_probe.op = "should_execute"
     /\ InUnitRange(memory_policy.safety_margin)
     /\ policy_probe.answer) =>
        \A e2 \in ProbeBytes, a2 \in ProbeBytes :
           (e2 <= policy_probe.estimated_usage /\ a2 >= policy_probe.available_memory)
              => should_execute(memory_policy, e2, a2)

C28_Witness ==
    /\ policy_probe.op = "should_execute"
    /\ memory_policy.safety_margin = <<1, 2>>
    /\ policy_probe.estimated_usage = 3
    /\ policy_probe.available_memory = 6
    /\ policy_probe.answer
    /\ should_execute(memory_policy, 2, 7)
    /\ ~should_execute(memory_policy, 3, 5)

----------------------------------------------------------------------------
(* The mock monitor used on its own, as the test suite does *)

\* readings given to the constructor and to set_available_memory
MockLevels == 0 .. TotalMemory + 1

\* policy_probe holds the last call on the monitor and what it returned, with the
\* constructor's total, the last value set (the constructor's at first) and the
\* number of set_available_memory calls
MonitorInit ==
    /\ \E t \in {TotalMemory, 2 * TotalMemory}, a \in MockLevels :
          /\ memory_monitor = MockMemoryMonitor(t, a)
          /\ policy_probe = [op |-> "__init__", total |-> t, last_set |-> a, sets |-> 0,
                             ret |-> None]
    /\ memory_estimator = MockMemoryEstimator
    /\ memory_policy = SafetyMarginMemoryPolicyAdapter(DefaultMargin)
    /\ execution_decision = MockExecutionDecision
    /\ func_calls = <<>>
    /\ worker_pool = WorkerPool
    /\ pc = "idle"
    /\ mode = "none"
    /\ call = NoCall
    /\ batch = NoBatch
    /\ flight = NoFlight
    /\ outcome = [kind |-> "none"]
    /\ base = Snapshot
    /\ env_changes = 0

\* monitor.set_available_memory(available_memory)
monitor_set_available_memory ==
    /\ policy_probe.sets < MaxMockCalls
    /\ \E a \in MockLevels :
          /\ memory_monitor' = after_set_available_memory(memory_monitor, a)
          /\ policy_probe' = [policy_probe EXCEPT !.op = "set_available_memory", !.last_set = a,
                                                  !.sets = @ + 1, !.ret = None]
    /\ UNCHANGED <<worker_pool, memory_estimator, memory_policy, execution_decision, func_calls, frames,
                   env_changes>>

\* monitor.get_available_memory()
monitor_get_available_memory ==
    /\ memory_monitor.queries < MaxMockCalls
    /\ memory_monitor' = [memory_monitor EXCEPT !.queries = @ + 1]
    /\ policy_probe' = [policy_probe EXCEPT !.op = "get_available_memory",
                                            !.ret = PyInt(memory_monitor._available_memory)]
    /\ UNCHANGED <<worker_pool, memory_estimator, memory_policy, execution_decision, func_calls, frames,
                   env_changes>>

\* monitor.get_total_memory()
monitor_get_total_memory ==
    /\ policy_probe' = [policy_probe EXCEPT !.op = "get_total_memory",
                                            !.ret = PyInt(memory_monitor._total_memory)]
    /\ UNCHANGED <<worker_pool, ports, frames, env_changes>>

\* monitor.get_memory_info()
monitor_get_memory_info ==
    /\ policy_probe' = [policy_probe EXCEPT !.op = "get_memory_info",
                                            !.ret = MemoryInfo(memory_monitor)]
    /\ UNCHANGED <<worker_pool, ports, frames, env_changes>>

MonitorNext ==
    \/ monitor_set_available_memory
    \/ monitor_get_available_memory
    \/ monitor_get_total_memory
    \/ monitor_get_memory_info

MonitorSpec == MonitorInit /\ [][MonitorNext]_vars

\* C29: after construction and any sequence of set_available_memory calls,
\* get_available_memory returns the last value set (the constructor's when none
\* was set), get_total_memory returns the constructor's total, and every
\* get_memory_info snapshot has that total, available equal to the last value
\* set and used = total - available.
C29_MockMonitorConsistent ==
    /\ policy_probe.op = "get_available_memory" => policy_probe.ret = PyInt(policy_probe.last_set)
    /\ policy_probe.op = "get_total_memory" => policy_probe.ret = PyInt(policy_probe.total)
    /\ policy_probe.op = "get_memory_info" =>
          /\ policy_probe.ret.total = policy_probe.total
          /\ policy_probe.ret.available = policy_probe.last_set
          /\ policy_probe.ret.used = policy_probe.ret.total - policy_probe.ret.available

C29_Witness ==
    /\ policy_probe.op = "get_memory_info"
    /\ policy_probe.sets = 2
    /\ policy_probe.total = 2 * TotalMemory
    /\ policy_probe.ret.available = 2
    /\ policy_probe.ret.used = 6
    /\ memory_monitor.queries > 0

----------------------------------------------------------------------------
(* The mock recorder used on its own *)

\* arguments of the direct calls: those of the test and one more of each kind
CheckEvents == {<<1, 8, 7>>, <<3, 0, 0>>}
DecisionEvents == {<<name_of("test_function"), TRUE, NoReason>>,
                   <<name_of("test_function"), FALSE, skipped_msg(1, 1)>>}
ErrorEvents == {<<2, 1>>, <<3, 0>>}

\* policy_probe holds the last call on the recorder with its arguments, the
\* recorder before that call, and the log calls made since the last clear_logs
RecorderInit ==
    /\ memory_monitor = MockMemoryMonitor(TotalMemory, TotalMemory)
    /\ memory_estimator = MockMemoryEstimator
    /\ memory_policy = SafetyMarginMemoryPolicyAdapter(DefaultMargin)
    /\ execution_decision = MockExecutionDecision
    /\ func_calls = <<>>
    /\ worker_pool = WorkerPool
    /\ pc = "idle"
    /\ mode = "none"
    /\ call = NoCall
    /\ batch = NoBatch
    /\ flight = NoFlight
    /\ outcome = [kind |-> "none"]
    /\ base = Snapshot
    /\ env_changes = 0
    /\ policy_probe = [op |-> "__init__", args |-> <<>>, before |-> MockExecutionDecision,
                       calls |-> <<>>]

\* the probe after a call op(args) on the recorder
Called(op, args) ==
    [op |-> op, args |-> args, before |-> execution_decision,
     calls |-> Append(policy_probe.calls, [op |-> op, args |-> args])]

\* decision.log_memory_check(estimated_usage, available_memory, safe_available)
decision_log_memory_check ==
    /\ Len(execution_decision._memory_check_logs) < MaxMockCalls
    /\ \E t \in CheckEvents :
          /\ execution_decision' = log_memory_check(execution_decision, t[1], t[2], t[3])
          /\ policy_probe' = Called("log_memory_check", t)
    /\ UNCHANGED <<worker_pool, memory_monitor, memory_estimator, memory_policy, func_calls, frames,
                   env_changes>>

\* decision.log_execution_decision(func_name, should_execute, reason)
decision_log_execution_decision ==
    /\ Len(execution_decision._execution_decision_logs) < MaxMockCalls
    /\ \E t \in DecisionEvents :
          /\ execution_decision' = log_execution_decision(execution_decision, t[1], t[2], t[3])
          /\ policy_probe' = Called("log_execution_decision", t)
    /\ UNCHANGED <<worker_pool, memory_monitor, memory_estimator, memory_policy, func_calls, frames,
                   env_changes>>

\* decision.log_memory_error(estimated_usage, available_memory)
decision_log_memory_error ==
    /\ Len(execution_decision._memory_error_logs) < MaxMockCalls
    /\ \E t \in ErrorEvents :
          /\ execution_decision' = log_memory_error(execution_decision, t[1], t[2])
          /\ policy_probe' = Called("log_memory_error", t)
    /\ UNCHANGED <<worker_pool, memory_monitor, memory_estimator, memory_policy, func_calls, frames,
                   env_changes>>

\* decision.clear_logs()
decision_clear_logs ==
    /\ execution_decision' = clear_logs(execution_decision)
    /\ policy_probe' = [op |-> "clear_logs", args |-> <<>>, before |-> execution_decision,
                        calls |-> <<>>]
    /\ UNCHANGED <<worker_pool, memory_monitor, memory_estimator, memory_policy, func_calls, frames,
                   env_changes>>

RecorderNext ==
    \/ decision_log_memory_check
    \/ decision_log_execution_decision
    \/ decision_log_memory_error
    \/ decision_clear_logs

RecorderSpec == RecorderInit /\ [][RecorderNext]_vars

\* the arguments of the calls of one kind, in call order
RECURSIVE ArgsOf(_, _)
ArgsOf(op, calls) ==
    IF calls = <<>>
    THEN <<>>
    ELSE LET rest == ArgsOf(op, SubSeq(calls, 1, Len(calls) - 1))
             last == calls[Len(calls)]
         IN IF last.op = op THEN Append(rest, last.args) ELSE rest

\* C30: each of log_memory_check, log_execution_decision and log_memory_error
\* appends exactly one tuple of its arguments to its own log and leaves the
\* other two logs as they were; each log lists its events in call order;
\* clear_logs empties all three.
C30_MockRecorderFrames ==
    LET rec == execution_decision
        before == policy_probe.before
    IN /\ policy_probe.op = "log_memory_check" =>
             /\ rec._memory_check_logs = Append(before._memory_check_logs, policy_probe.args)
             /\ rec._execution_decision_logs = before._execution_decision_logs
             /\ rec._memory_error_logs = before._memory_error_logs
       /\ policy_probe.op = "log_execution_decision" =>
             /\ rec._execution_decision_logs
                  = Append(before._execution_decision_logs, policy_probe.args)
             /\ rec._memory_check_logs = before._memory_check_logs
             /\ rec._memory_error_logs = before._memory_error_logs
       /\ policy_probe.op = "log_memory_error" =>
             /\ rec._memory_error_logs = Append(before._memory_error_logs, policy_probe.args)
             /\ rec._memory_check_logs = before._memory_check_logs
             /\ rec._execution_decision_logs = before._execution_decision_logs
       /\ policy_probe.op = "clear_logs" => rec = MockExecutionDecision
       /\ rec._memory_check_logs = ArgsOf("log_memory_check", policy_probe.calls)
       /\ rec._execution_decision_logs = ArgsOf("log_execution_decision", policy_probe.calls)
       /\ rec._memory_error_logs = ArgsOf("log_memory_error", policy_probe.calls)

C30_Witness ==
    /\ policy_probe.op = "clear_logs"
    /\ policy_probe.before._memory_check_logs = <<<<1, 8, 7>>, <<3, 0, 0>>>>
    /\ Len(policy_probe.before._execution_decision_logs) = 1
    /\ policy_probe.before._memory_error_logs = <<<<2, 1>>>>
    /\ execution_decision = MockExecutionDecision

====
